---- MODULE Spec2Model ----
(***************************************************************************)
(* Desk controller: the simulated GPIO pin table and its simulator network *)
(* server (src/rpi_simulator.py) and the Omron D6T frame acquisition       *)
(* (src/sensors/omron_d6t/omron_d6t.py).                                   *)
(*                                                                         *)
(* Two threads run the simulator: "main" (the caller of the GPIO facade)   *)
(* and "server" (SimulatorConnection.server_run_thread).  Every `with      *)
(* lock:` block is an acquire step followed by the body; a lock is         *)
(* released in the step that leaves the block.  The simulator is enabled   *)
(* (simulatorConn is set), which is the configuration the server runs in.  *)
(***************************************************************************)
EXTENDS Integers, Sequences, FiniteSets, TLC

\* ---------------------------------------------------------------- bounds
MaxPin == 1
MaxValue == 1
UnknownCmd == 153

\* ------------------------------------------------------ program constants
CMD_SET_PIN == 53
CMD_SYNC == 16
MAX_CHUNK_LEN == 3

Threads == {"main", "server"}
Pins == 1..MaxPin
\* The pin ids callers pass: the pins the program sets up, and one it never does.
PinIds == Pins \cup {MaxPin + 1}
Values == 0..MaxValue
Free == "free"
NoCallback == "None"
Callbacks == {"cb_read"}
NoValue == 0 - 1

\* ----------------------------------------------------- _pin_map (a dict)
\* The dict is a sequence of entries in insertion order, one per key.
HasPin(m, p) == \E i \in 1..Len(m) : m[i].pin = p

IndexOf(m, p) == CHOOSE i \in 1..Len(m) : m[i].pin = p

Get(m, p) == m[IndexOf(m, p)]

Put(m, p, v, cb) ==
    LET e == [pin |-> p, state |-> v, callback |-> cb]
    IN  IF HasPin(m, p) THEN [m EXCEPT ![IndexOf(m, p)] = e] ELSE Append(m, e)

VARIABLES
    pin_map,            \* _pin_map
    pin_map_lock,       \* holder of _pin_map_lock
    sync_client_lock,   \* holder of SimulatorConnection.sync_client_lock
    lock,               \* holder of SimulatorConnection.lock
    should_sync,        \* SimulatorConnection.should_sync
    run_thread,         \* SimulatorConnection.run_thread
    serverSocket,       \* "listening" | "closed"
    clientSocket,       \* "None" | "conn"
    conn,               \* the accepted connection: "none" | "open" | "closed"
    res,                \* server_run_thread's local res: "unset" | "None" | "conn"
    pc,                 \* position of each thread
    o_pin, o_val, o_cb, \* GPIO.output's pin, value and local callback, per thread
    in_pin, in_ret,     \* GPIO.input's pin and returned value, per thread
    a_pin, a_cb,        \* setup / add_event_detect arguments of main
    raised,             \* exception that left main's last facade call
    chunk,              \* server: bytes received, while they are processed
    send_b,             \* server: the bytearray built by sync_with_client
    sync_ret,           \* server: which call of sync_with_client is running
    last_write,         \* history: value of the last write to each pin
    setup_since,        \* history: pin was set up again after its last write
    cb_calls, cb_arg,   \* history: callback invocations of the running output
    accepts_after_stop, \* history: accept() calls begun after the stop flag was set
    inbound_write,      \* history: this iteration took an inbound 0x35 and has sent no sync yet
    synced_once,        \* history: a send to the client has succeeded
    unsent_write,       \* history: a write changed the table after the last snapshot sent
    unsent_setup,       \* history: a setup changed the table's values after that snapshot
    s_pc,               \* OmronD6T.__read: "idle" | "loop" | "returned"
    s_i,                \* __read's loop variable i
    s_result,           \* what __read returned
    s_occupied,         \* what occupied_status returned ("unset" before it has)
    s_log               \* history: the raw-read outcomes of this acquisition

vars == <<pin_map, pin_map_lock, sync_client_lock, lock, should_sync, run_thread,
          serverSocket, clientSocket, conn, res, pc, o_pin, o_val, o_cb,
          in_pin, in_ret, a_pin, a_cb, raised, chunk, send_b, sync_ret,
          last_write, setup_since, cb_calls, cb_arg, accepts_after_stop,
          inbound_write, synced_once, unsent_write, unsent_setup,
          s_pc, s_i, s_result, s_occupied, s_log>>

simVars == <<pin_map, pin_map_lock, sync_client_lock, lock, should_sync, run_thread,
             serverSocket, clientSocket, conn, res, pc, o_pin, o_val, o_cb,
             in_pin, in_ret, a_pin, a_cb, raised, chunk, send_b, sync_ret,
             last_write, setup_since, cb_calls, cb_arg, accepts_after_stop,
             inbound_write, synced_once, unsent_write, unsent_setup>>
sensorVars == <<s_pc, s_i, s_result, s_occupied, s_log>>
sockVars == <<serverSocket, clientSocket, conn, res>>
flagVars == <<should_sync, run_thread, sync_client_lock, lock>>
outVars == <<o_pin, o_val, o_cb>>
inVars == <<in_pin, in_ret>>
mainVars == <<a_pin, a_cb, raised>>
srvVars == <<chunk, send_b, sync_ret>>
syncHist == <<inbound_write, synced_once, unsent_write, unsent_setup>>
histVars == <<last_write, setup_since, cb_calls, cb_arg, accepts_after_stop, syncHist>>

Goto(t, l) == pc' = [pc EXCEPT ![t] = l]

\* SimulatorConnection.__init__ has run: the socket listens, the thread is started.
Init ==
    /\ pin_map = <<>>
    /\ pin_map_lock = Free
    /\ sync_client_lock = Free
    /\ lock = Free
    /\ should_sync = FALSE
    /\ run_thread = TRUE
    /\ serverSocket = "listening"
    /\ clientSocket = "None"
    /\ conn = "none"
    /\ res = "unset"
    /\ pc = [t \in Threads |-> IF t = "main" THEN "idle" ELSE "acc_chk_lock"]
    /\ o_pin = [t \in Threads |-> 0]
    /\ o_val = [t \in Threads |-> 0]
    /\ o_cb = [t \in Threads |-> NoCallback]
    /\ in_pin = [t \in Threads |-> 0]
    /\ in_ret = [t \in Threads |-> NoValue]
    /\ a_pin = 0
    /\ a_cb = NoCallback
    /\ raised = "none"
    /\ chunk = <<>>
    /\ send_b = <<>>
    /\ sync_ret = "none"
    /\ last_write = [p \in PinIds |-> NoValue]
    /\ setup_since = [p \in PinIds |-> FALSE]
    /\ cb_calls = [t \in Threads |-> 0]
    /\ cb_arg = [t \in Threads |-> 0]
    /\ accepts_after_stop = 0
    /\ inbound_write = FALSE
    /\ synced_once = FALSE
    /\ unsent_write = FALSE
    /\ unsent_setup = FALSE
    /\ s_pc = "idle"
    /\ s_i = 0
    /\ s_result = <<>>
    /\ s_occupied = "unset"
    /\ s_log = <<>>

\* ------------------------------------------------------------ GPIO.setup
\* main calls GPIO.setup(p, dir)
SetupCall ==
    /\ pc["main"] = "idle"
    /\ \E p \in Pins : a_pin' = p
    /\ raised' = "none"
    /\ in_ret' = [in_ret EXCEPT !["main"] = NoValue]
    /\ Goto("main", "setup_lock")
    /\ UNCHANGED <<sensorVars, pin_map, pin_map_lock, sockVars, flagVars, outVars, in_pin,
                   a_cb, srvVars, histVars>>

\* Variant: setup enters its block without waiting for the lock.
SetupNoLock ==
    /\ pc["main"] = "setup_lock"
    /\ Goto("main", "setup_put")
    /\ UNCHANGED <<sensorVars, pin_map, pin_map_lock, sockVars, flagVars, outVars, inVars,
                   mainVars, srvVars, histVars>>

SetupLock ==
    /\ pc["main"] = "setup_lock"
    /\ pin_map_lock = Free
    /\ pin_map_lock' = "main"
    /\ Goto("main", "setup_put")
    /\ UNCHANGED <<sensorVars, pin_map, sockVars, flagVars, outVars, inVars, mainVars,
                   srvVars, histVars>>

SetupPut ==
    /\ pc["main"] = "setup_put"
    /\ pin_map' = Put(pin_map, a_pin, 0, NoCallback)
    /\ pin_map_lock' = Free
    /\ setup_since' = [setup_since EXCEPT ![a_pin] = TRUE]
    /\ unsent_setup' = (unsent_setup \/ ~HasPin(pin_map, a_pin)
                                      \/ Get(pin_map, a_pin).state # 0)
    /\ a_pin' = 0
    /\ Goto("main", "idle")
    /\ UNCHANGED <<sensorVars, sockVars, flagVars, outVars, inVars, a_cb, raised, srvVars,
                   last_write, cb_calls, cb_arg, accepts_after_stop, inbound_write,
                   synced_once, unsent_write>>

\* -------------------------------------------------- GPIO.add_event_detect
AddEventCall ==
    /\ pc["main"] = "idle"
    /\ \E p \in PinIds, cb \in Callbacks : a_pin' = p /\ a_cb' = cb
    /\ raised' = "none"
    /\ in_ret' = [in_ret EXCEPT !["main"] = NoValue]
    /\ Goto("main", "aed_lock")
    /\ UNCHANGED <<sensorVars, pin_map, pin_map_lock, sockVars, flagVars, outVars, in_pin,
                   srvVars, histVars>>

AddEventLock ==
    /\ pc["main"] = "aed_lock"
    /\ pin_map_lock = Free
    /\ pin_map_lock' = "main"
    /\ Goto("main", "aed_put")
    /\ UNCHANGED <<sensorVars, pin_map, sockVars, flagVars, outVars, inVars, mainVars,
                   srvVars, histVars>>

\* _pin_map[pin] raises KeyError for a pin that is not a key; the with block
\* releases the lock as the exception leaves it.
AddEventPut ==
    /\ pc["main"] = "aed_put"
    /\ IF HasPin(pin_map, a_pin)
       THEN /\ pin_map' = Put(pin_map, a_pin, Get(pin_map, a_pin).state, a_cb)
            /\ raised' = "none"
       ELSE /\ pin_map' = pin_map
            /\ raised' = "KeyError"
    /\ pin_map_lock' = Free
    /\ a_pin' = 0
    /\ a_cb' = NoCallback
    /\ Goto("main", "idle")
    /\ UNCHANGED <<sensorVars, sockVars, flagVars, outVars, inVars, srvVars, histVars>>

\* ------------------------------------------------------------ GPIO.input
\* GPIO.input(pin) runs on main (called directly) and, on either thread,
\* inside the callback cb_read.  lockPc/readPc/retPc are the positions of the
\* call at hand.
InputLock(t, lockPc, readPc) ==
    /\ pc[t] = lockPc
    /\ pin_map_lock = Free
    /\ pin_map_lock' = t
    /\ Goto(t, readPc)
    /\ UNCHANGED <<sensorVars, pin_map, sockVars, flagVars, outVars, inVars, mainVars,
                   srvVars, histVars>>

InputValue(m, p) == IF HasPin(m, p) THEN Get(m, p).state ELSE NoValue

InputRead(t, readPc, retPc) ==
    /\ pc[t] = readPc
    /\ in_ret' = [in_ret EXCEPT ![t] = InputValue(pin_map, in_pin[t])]
    /\ in_pin' = [in_pin EXCEPT ![t] = 0]
    /\ pin_map_lock' = Free
    /\ Goto(t, retPc)
    /\ UNCHANGED <<sensorVars, pin_map, sockVars, flagVars, outVars, mainVars,
                   srvVars, histVars>>

InputCall ==
    /\ pc["main"] = "idle"
    /\ \E p \in PinIds : in_pin' = [in_pin EXCEPT !["main"] = p]
    /\ in_ret' = [in_ret EXCEPT !["main"] = NoValue]
    /\ raised' = "none"
    /\ Goto("main", "in_lock")
    /\ UNCHANGED <<sensorVars, pin_map, pin_map_lock, sockVars, flagVars, outVars, a_pin,
                   a_cb, srvVars, histVars>>

MainInputLock == InputLock("main", "in_lock", "in_read")

MainInputRead == InputRead("main", "in_read", "idle")

\* ----------------------------------------------------------- GPIO.output
\* GPIO.output(pin, value) runs on main (called directly) and on the server
\* thread (called by process_message).
OutputCall ==
    /\ pc["main"] = "idle"
    /\ \E p \in PinIds, v \in Values :
          /\ o_pin' = [o_pin EXCEPT !["main"] = p]
          /\ o_val' = [o_val EXCEPT !["main"] = v]
    /\ o_cb' = [o_cb EXCEPT !["main"] = NoCallback]
    /\ cb_calls' = [cb_calls EXCEPT !["main"] = 0]
    /\ cb_arg' = [cb_arg EXCEPT !["main"] = 0]
    /\ raised' = "none"
    /\ in_ret' = [in_ret EXCEPT !["main"] = NoValue]
    /\ Goto("main", "out_lock")
    /\ UNCHANGED <<sensorVars, pin_map, pin_map_lock, sockVars, flagVars, in_pin, a_pin,
                   a_cb, srvVars, last_write, setup_since, accepts_after_stop, syncHist>>

OutputLock(t) ==
    /\ pc[t] = "out_lock"
    /\ pin_map_lock = Free
    /\ pin_map_lock' = t
    /\ Goto(t, "out_update")
    /\ UNCHANGED <<sensorVars, pin_map, sockVars, flagVars, outVars, inVars, mainVars,
                   srvVars, histVars>>

\* Variant: the update stores the old value back: (old_val, callback).
OutputUpdateOldValue(t) ==
    /\ pc[t] = "out_update"
    /\ IF HasPin(pin_map, o_pin[t])
       THEN /\ o_cb' = [o_cb EXCEPT ![t] = Get(pin_map, o_pin[t]).callback]
            /\ pin_map' = Put(pin_map, o_pin[t], Get(pin_map, o_pin[t]).state,
                              Get(pin_map, o_pin[t]).callback)
            /\ last_write' = [last_write EXCEPT ![o_pin[t]] = o_val[t]]
            /\ setup_since' = [setup_since EXCEPT ![o_pin[t]] = FALSE]
            /\ unsent_write' = TRUE
       ELSE UNCHANGED <<o_cb, pin_map, last_write, setup_since, unsent_write>>
    /\ pin_map_lock' = Free
    /\ Goto(t, IF o_cb'[t] # NoCallback THEN "out_callback" ELSE "out_notify_lock")
    /\ UNCHANGED <<sensorVars, sockVars, flagVars, o_pin, o_val, inVars, mainVars, srvVars,
                   cb_calls, cb_arg, accepts_after_stop,
                   inbound_write, synced_once, unsent_setup>>

\* Variant: the callback is invoked inside the with block (the lock is kept).
OutputUpdateHoldingLock(t) ==
    /\ pc[t] = "out_update"
    /\ IF HasPin(pin_map, o_pin[t])
       THEN /\ o_cb' = [o_cb EXCEPT ![t] = Get(pin_map, o_pin[t]).callback]
            /\ pin_map' = Put(pin_map, o_pin[t], o_val[t],
                              Get(pin_map, o_pin[t]).callback)
            /\ last_write' = [last_write EXCEPT ![o_pin[t]] = o_val[t]]
            /\ setup_since' = [setup_since EXCEPT ![o_pin[t]] = FALSE]
            /\ unsent_write' = TRUE
       ELSE UNCHANGED <<o_cb, pin_map, last_write, setup_since, unsent_write>>
    /\ pin_map_lock' = IF o_cb'[t] # NoCallback THEN pin_map_lock ELSE Free
    /\ Goto(t, IF o_cb'[t] # NoCallback THEN "out_callback" ELSE "out_notify_lock")
    /\ UNCHANGED <<sensorVars, sockVars, flagVars, o_pin, o_val, inVars, mainVars, srvVars,
                   cb_calls, cb_arg, accepts_after_stop,
                   inbound_write, synced_once, unsent_setup>>

\* Variant: no test `if pin in _pin_map`; an unknown pin gets an entry.
OutputUpdateUnchecked(t) ==
    /\ pc[t] = "out_update"
    /\ IF HasPin(pin_map, o_pin[t])
       THEN /\ o_cb' = [o_cb EXCEPT ![t] = Get(pin_map, o_pin[t]).callback]
            /\ pin_map' = Put(pin_map, o_pin[t], o_val[t],
                              Get(pin_map, o_pin[t]).callback)
       ELSE /\ o_cb' = o_cb
            /\ pin_map' = Put(pin_map, o_pin[t], o_val[t], NoCallback)
    /\ last_write' = [last_write EXCEPT ![o_pin[t]] = o_val[t]]
    /\ unsent_write' = TRUE
    /\ setup_since' = [setup_since EXCEPT ![o_pin[t]] = FALSE]
    /\ pin_map_lock' = Free
    /\ Goto(t, IF o_cb'[t] # NoCallback THEN "out_callback" ELSE "out_notify_lock")
    /\ UNCHANGED <<sensorVars, sockVars, flagVars, o_pin, o_val, inVars, mainVars, srvVars,
                   cb_calls, cb_arg, accepts_after_stop,
                   inbound_write, synced_once, unsent_setup>>

\* The table update of the with block and the block's end; the test
\* `if callback is not None` decides where the thread goes on.
OutputUpdate(t) ==
    /\ pc[t] = "out_update"
    /\ IF HasPin(pin_map, o_pin[t])
       THEN /\ o_cb' = [o_cb EXCEPT ![t] = Get(pin_map, o_pin[t]).callback]
            /\ pin_map' = Put(pin_map, o_pin[t], o_val[t],
                              Get(pin_map, o_pin[t]).callback)
            /\ last_write' = [last_write EXCEPT ![o_pin[t]] = o_val[t]]
            /\ setup_since' = [setup_since EXCEPT ![o_pin[t]] = FALSE]
            /\ unsent_write' = TRUE
       ELSE UNCHANGED <<o_cb, pin_map, last_write, setup_since, unsent_write>>
    /\ pin_map_lock' = Free
    /\ Goto(t, IF o_cb'[t] # NoCallback THEN "out_callback" ELSE "out_notify_lock")
    /\ UNCHANGED <<sensorVars, sockVars, flagVars, o_pin, o_val, inVars, mainVars, srvVars,
                   cb_calls, cb_arg, accepts_after_stop,
                   inbound_write, synced_once, unsent_setup>>

\* callback(pin).  The callback cb_read calls GPIO.input(pin).
OutputCallback(t) ==
    /\ pc[t] = "out_callback"
    /\ cb_calls' = [cb_calls EXCEPT ![t] = cb_calls[t] + 1]
    /\ cb_arg' = [cb_arg EXCEPT ![t] = o_pin[t]]
    /\ in_pin' = [in_pin EXCEPT ![t] = o_pin[t]]
    /\ Goto(t, "cb_in_lock")
    /\ UNCHANGED <<sensorVars, pin_map, pin_map_lock, sockVars, flagVars, outVars, in_ret,
                   mainVars, srvVars, last_write, setup_since, accepts_after_stop, syncHist>>

CallbackInputLock(t) == InputLock(t, "cb_in_lock", "cb_in_read")

CallbackInputRead(t) == InputRead(t, "cb_in_read", "out_notify_lock")

\* simulatorConn.set_should_sync(): with self.sync_client_lock
OutputNotifyLock(t) ==
    /\ pc[t] = "out_notify_lock"
    /\ sync_client_lock = Free
    /\ sync_client_lock' = t
    /\ Goto(t, "out_notify_set")
    /\ UNCHANGED <<sensorVars, pin_map, pin_map_lock, sockVars, should_sync, run_thread, lock,
                   outVars, inVars, mainVars, srvVars, histVars>>

\* self.should_sync = True, and the return of GPIO.output: to the caller on
\* main, to server_run_thread's check of the flag on the server.
OutputNotifySet(t) ==
    /\ pc[t] = "out_notify_set"
    /\ should_sync' = TRUE
    /\ sync_client_lock' = Free
    /\ o_pin' = [o_pin EXCEPT ![t] = 0]
    /\ o_val' = [o_val EXCEPT ![t] = 0]
    /\ o_cb' = [o_cb EXCEPT ![t] = NoCallback]
    /\ cb_calls' = [cb_calls EXCEPT ![t] = 0]
    /\ cb_arg' = [cb_arg EXCEPT ![t] = 0]
    /\ chunk' = IF t = "server" THEN <<>> ELSE chunk
    /\ in_ret' = [in_ret EXCEPT ![t] = NoValue]
    /\ Goto(t, IF t = "main" THEN "idle" ELSE "sync_chk_lock")
    /\ UNCHANGED <<sensorVars, pin_map, pin_map_lock, sockVars, run_thread, lock, in_pin,
                   mainVars, send_b, sync_ret, last_write, setup_since,
                   accepts_after_stop, syncHist>>

\* --------------------------------- GPIO.cleanup, SimulatorConnection.shutdown
CleanupCall ==
    /\ pc["main"] = "idle"
    /\ raised' = "none"
    /\ in_ret' = [in_ret EXCEPT !["main"] = NoValue]
    /\ Goto("main", "sd_lock")
    /\ UNCHANGED <<sensorVars, pin_map, pin_map_lock, sockVars, flagVars, outVars, in_pin,
                   a_pin, a_cb, srvVars, histVars>>

ShutdownLock ==
    /\ pc["main"] = "sd_lock"
    /\ lock = Free
    /\ lock' = "main"
    /\ Goto("main", "sd_set")
    /\ UNCHANGED <<sensorVars, pin_map, pin_map_lock, sockVars, should_sync, run_thread,
                   sync_client_lock, outVars, inVars, mainVars, srvVars, histVars>>

ShutdownSet ==
    /\ pc["main"] = "sd_set"
    /\ run_thread' = FALSE
    /\ lock' = Free
    /\ Goto("main", "sd_join")
    /\ UNCHANGED <<sensorVars, pin_map, pin_map_lock, sockVars, should_sync, sync_client_lock,
                   outVars, inVars, mainVars, srvVars, histVars>>

ThreadEnded == pc["server"] \in {"exited", "crashed"}

\* self.thread.join()
ShutdownJoin ==
    /\ pc["main"] = "sd_join"
    /\ ThreadEnded
    /\ Goto("main", "sd_close")
    /\ UNCHANGED <<sensorVars, pin_map, pin_map_lock, sockVars, flagVars, outVars, inVars,
                   mainVars, srvVars, histVars>>

\* if self.serverSocket: close; if self.clientSocket: close
ShutdownClose ==
    /\ pc["main"] = "sd_close"
    /\ serverSocket' = "closed"
    /\ conn' = IF clientSocket # "None" THEN "closed" ELSE conn
    /\ Goto("main", "finished")
    /\ UNCHANGED <<sensorVars, pin_map, pin_map_lock, clientSocket, res, flagVars, outVars,
                   inVars, mainVars, srvVars, histVars>>

\* ------------------------------------------------- can_run_thread (server)
\* with self.lock: the three calls, from accept_client's loop (acc), after
\* accept_client (run) and from the receive loop (loop).
CanRunThreadLock(lockPc, readPc) ==
    /\ pc["server"] = lockPc
    /\ lock = Free
    /\ lock' = "server"
    /\ Goto("server", readPc)
    /\ UNCHANGED <<sensorVars, pin_map, pin_map_lock, sockVars, should_sync, run_thread,
                   sync_client_lock, outVars, inVars, mainVars, srvVars, histVars>>

AcceptLoopLock == CanRunThreadLock("acc_chk_lock", "acc_chk")

RunCheckLock == CanRunThreadLock("run_chk_lock", "run_chk")

LoopCheckLock == CanRunThreadLock("loop_chk_lock", "loop_chk")

\* Variant: accept_client's loop does not look at the flag (while True).
AcceptLoopIgnoresFlag ==
    /\ pc["server"] = "acc_chk"
    /\ lock' = Free
    /\ Goto("server", "acc_accept")
    /\ UNCHANGED <<sensorVars, pin_map, pin_map_lock, sockVars, should_sync, run_thread,
                   sync_client_lock, outVars, inVars, mainVars, srvVars, histVars>>

\* ------------------------------------------------------------ accept_client
\* while self.can_run_thread(): when the flag is false the loop ends and the
\* function returns None.
AcceptLoopCheck ==
    /\ pc["server"] = "acc_chk"
    /\ lock' = Free
    /\ IF run_thread
       THEN Goto("server", "acc_accept") /\ res' = res
       ELSE Goto("server", "run_chk_lock") /\ res' = "None"
    /\ UNCHANGED <<sensorVars, pin_map, pin_map_lock, serverSocket, clientSocket, conn,
                   should_sync, run_thread, sync_client_lock, outVars,
                   inVars, mainVars, srvVars, histVars>>

CountAfterStop(n) == IF run_thread THEN n ELSE IF n < 2 THEN n + 1 ELSE n

\* Variant: accept_client stores the connection and goes on looping instead
\* of returning it.
AcceptAndListenOn ==
    /\ pc["server"] = "acc_accept"
    /\ accepts_after_stop' = CountAfterStop(accepts_after_stop)
    /\ conn' = "open"
    /\ res' = "conn"
    /\ Goto("server", "acc_chk_lock")
    /\ UNCHANGED <<sensorVars, pin_map, pin_map_lock, serverSocket, clientSocket, flagVars,
                   outVars, inVars, mainVars, srvVars, last_write, setup_since,
                   cb_calls, cb_arg, syncHist>>

\* self.serverSocket.accept() on the non-blocking socket returns the
\* connection of a client that has connected: return res.
AcceptConnection ==
    /\ pc["server"] = "acc_accept"
    /\ accepts_after_stop' = CountAfterStop(accepts_after_stop)
    /\ conn' = "open"
    /\ res' = "conn"
    /\ Goto("server", "run_chk_lock")
    /\ UNCHANGED <<sensorVars, pin_map, pin_map_lock, serverSocket, clientSocket, flagVars,
                   outVars, inVars, mainVars, srvVars, last_write, setup_since,
                   cb_calls, cb_arg, syncHist>>

\* accept() raises socket.error (EAGAIN: nobody has connected; any other is
\* swallowed as well); the thread sleeps and the loop goes on.
AcceptError ==
    /\ pc["server"] = "acc_accept"
    /\ accepts_after_stop' = CountAfterStop(accepts_after_stop)
    /\ Goto("server", "acc_chk_lock")
    /\ UNCHANGED <<sensorVars, pin_map, pin_map_lock, sockVars, flagVars, outVars, inVars,
                   mainVars, srvVars, last_write, setup_since, cb_calls, cb_arg,
                   syncHist>>

\* --------------------------------------------------------- server_run_thread
\* if not self.can_run_thread(): return
RunCheck ==
    /\ pc["server"] = "run_chk"
    /\ lock' = Free
    /\ IF run_thread
       THEN Goto("server", "unpack") /\ res' = res
       ELSE Goto("server", "exited") /\ res' = "unset"
    /\ UNCHANGED <<sensorVars, pin_map, pin_map_lock, serverSocket, clientSocket, conn,
                   should_sync, run_thread, sync_client_lock, outVars,
                   inVars, mainVars, srvVars, histVars>>

\* Variant: after the unpacking the thread enters the loop's test of the
\* flag instead of calling sync_with_client().
UnpackThenCheckFlag ==
    /\ pc["server"] = "unpack"
    /\ IF res = "conn"
       THEN /\ clientSocket' = "conn"
            /\ sync_ret' = sync_ret
            /\ Goto("server", "sync_chk_lock")
       ELSE /\ Goto("server", "crashed")
            /\ UNCHANGED <<clientSocket, sync_ret>>
    /\ UNCHANGED <<sensorVars, pin_map, pin_map_lock, serverSocket, conn, res,
                   flagVars, outVars, inVars, mainVars, chunk, send_b, histVars>>

\* (client, caddr) = res; self.clientSocket = client; then the first
\* sync_with_client().  Unpacking None raises TypeError, which ends the thread.
Unpack ==
    /\ pc["server"] = "unpack"
    /\ IF res = "conn"
       THEN /\ clientSocket' = "conn"
            /\ sync_ret' = "initial"
            /\ Goto("server", "sy_lock")
       ELSE /\ Goto("server", "crashed")
            /\ UNCHANGED <<clientSocket, sync_ret>>
    /\ UNCHANGED <<sensorVars, pin_map, pin_map_lock, serverSocket, conn, res,
                   flagVars, outVars, inVars, mainVars, chunk, send_b, histVars>>

\* while self.can_run_thread():
LoopCheck ==
    /\ pc["server"] = "loop_chk"
    /\ lock' = Free
    /\ IF run_thread
       THEN Goto("server", "recv") /\ res' = res
       ELSE Goto("server", "exited") /\ res' = "unset"
    /\ UNCHANGED <<sensorVars, pin_map, pin_map_lock, serverSocket, clientSocket, conn,
                   should_sync, run_thread, sync_client_lock, outVars,
                   inVars, mainVars, srvVars, histVars>>

\* What the client may have sent: well-formed and malformed messages.
Chunks ==
    {<<>>, <<CMD_SYNC>>, <<UnknownCmd>>, <<CMD_SET_PIN>>}
    \cup {<<CMD_SET_PIN, p>> : p \in Pins}
    \cup {<<CMD_SET_PIN, p, v>> : p \in Pins, v \in Values}
    \cup {<<CMD_SET_PIN, p, MaxValue, CMD_SYNC>> : p \in Pins}

\* chunk = self.clientSocket.recv(1024): bytes, or socket.error (EAGAIN: no
\* data; any other is printed), after which the thread sleeps and loops.
Recv ==
    /\ pc["server"] = "recv"
    /\ \/ \E c \in Chunks : chunk' = c /\ Goto("server", "process")
       \/ chunk' = chunk /\ Goto("server", "loop_chk_lock")
    /\ UNCHANGED <<sensorVars, pin_map, pin_map_lock, sockVars, flagVars, outVars, inVars,
                   mainVars, send_b, sync_ret, histVars>>

\* Variant: the length check lets one byte more through (len(chunk) > 4).
ProcessKindLongOk(c) ==
    IF Len(c) < 1 \/ Len(c) > MAX_CHUNK_LEN + 1 THEN "return"
    ELSE IF c[1] = CMD_SET_PIN
         THEN IF Len(c) < 3 THEN "IndexError" ELSE "output"
         ELSE IF c[1] = CMD_SYNC THEN "sync" ELSE "ignore"

\* ---------------------------------------------------------- process_message
\* What process_message does with a chunk: return at the length check, raise
\* IndexError at chunk[1] / chunk[2], call GPIO.output, call sync_with_client,
\* or fall through both branches.
ProcessKind(c) ==
    IF Len(c) < 1 \/ Len(c) > MAX_CHUNK_LEN THEN "return"
    ELSE IF c[1] = CMD_SET_PIN
         THEN IF Len(c) < 3 THEN "IndexError" ELSE "output"
         ELSE IF c[1] = CMD_SYNC THEN "sync" ELSE "ignore"

Process ==
    /\ pc["server"] = "process"
    /\ LET k == ProcessKind(chunk) IN
       CASE k = "output" ->
              /\ o_pin' = [o_pin EXCEPT !["server"] = chunk[2]]
              /\ o_val' = [o_val EXCEPT !["server"] = chunk[3]]
              /\ o_cb' = [o_cb EXCEPT !["server"] = NoCallback]
              /\ cb_calls' = [cb_calls EXCEPT !["server"] = 0]
              /\ cb_arg' = [cb_arg EXCEPT !["server"] = 0]
              /\ inbound_write' = TRUE
              /\ Goto("server", "out_lock")
              /\ UNCHANGED <<chunk, sync_ret>>
         [] k = "sync" ->
              /\ sync_ret' = "request"
              /\ Goto("server", "sy_lock")
              /\ UNCHANGED <<outVars, cb_calls, cb_arg, chunk, inbound_write>>
         [] k = "IndexError" ->
              /\ Goto("server", "crashed")
              /\ UNCHANGED <<outVars, cb_calls, cb_arg, chunk, sync_ret, inbound_write>>
         [] OTHER ->
              /\ chunk' = <<>>
              /\ Goto("server", "sync_chk_lock")
              /\ UNCHANGED <<outVars, cb_calls, cb_arg, sync_ret, inbound_write>>
    /\ UNCHANGED <<sensorVars, pin_map, pin_map_lock, sockVars, flagVars, inVars, mainVars,
                   send_b, last_write, setup_since, accepts_after_stop, synced_once,
                   unsent_write, unsent_setup>>

\* ------------------------------------------------------- should_sync_client
SyncCheckLock ==
    /\ pc["server"] = "sync_chk_lock"
    /\ sync_client_lock = Free
    /\ sync_client_lock' = "server"
    /\ Goto("server", "sync_chk")
    /\ UNCHANGED <<sensorVars, pin_map, pin_map_lock, sockVars, should_sync, run_thread, lock,
                   outVars, inVars, mainVars, srvVars, histVars>>

\* Variant: the flag is tested and the sync is made inside one
\* `with self.sync_client_lock` block.
SyncCheckKeepsLock ==
    /\ pc["server"] = "sync_chk"
    /\ IF should_sync
       THEN /\ sync_ret' = "flag"
            /\ sync_client_lock' = sync_client_lock
            /\ Goto("server", "sy_lock")
       ELSE /\ sync_ret' = sync_ret
            /\ sync_client_lock' = Free
            /\ Goto("server", "loop_chk_lock")
    /\ UNCHANGED <<sensorVars, pin_map, pin_map_lock, sockVars, should_sync, run_thread, lock,
                   outVars, inVars, mainVars, chunk, send_b, histVars>>

\* Variant: the flag is read but no sync follows in this iteration.
SyncCheckOnly ==
    /\ pc["server"] = "sync_chk"
    /\ sync_client_lock' = Free
    /\ sync_ret' = sync_ret
    /\ Goto("server", "loop_chk_lock")
    /\ UNCHANGED <<sensorVars, pin_map, pin_map_lock, sockVars, should_sync, run_thread, lock,
                   outVars, inVars, mainVars, chunk, send_b, histVars>>

\* if self.should_sync_client(): self.sync_with_client(); else sleep and loop
SyncCheck ==
    /\ pc["server"] = "sync_chk"
    /\ sync_client_lock' = Free
    /\ IF should_sync
       THEN sync_ret' = "flag" /\ Goto("server", "sy_lock")
       ELSE sync_ret' = sync_ret /\ Goto("server", "loop_chk_lock")
    /\ UNCHANGED <<sensorVars, pin_map, pin_map_lock, sockVars, should_sync, run_thread, lock,
                   outVars, inVars, mainVars, chunk, send_b, histVars>>

\* --------------------------------------------------------- sync_with_client
SyncLock ==
    /\ pc["server"] = "sy_lock"
    /\ pin_map_lock = Free
    /\ pin_map_lock' = "server"
    /\ Goto("server", "sy_build")
    /\ UNCHANGED <<sensorVars, pin_map, sockVars, flagVars, outVars, inVars, mainVars,
                   srvVars, histVars>>

\* for pin, (state, callback) in _pin_map.items(): append 0x35, pin, state
RECURSIVE Serialize(_)
Serialize(m) ==
    IF m = <<>> THEN <<>>
    ELSE <<CMD_SET_PIN, Head(m).pin, Head(m).state>> \o Serialize(Tail(m))

SyncBuild ==
    /\ pc["server"] = "sy_build"
    /\ send_b' = Serialize(pin_map)
    /\ Goto("server", "sy_send")
    /\ UNCHANGED <<sensorVars, pin_map, pin_map_lock, sockVars, flagVars, outVars, inVars,
                   mainVars, chunk, sync_ret, histVars>>

\* Variant: the flag is cleared after the with block has been left, so a
\* write can slip in between the send and the clearing.
SyncSendThenUnlock ==
    /\ pc["server"] = "sy_send"
    /\ \/ /\ Goto("server", "sy_clear_lock")
          /\ synced_once' = TRUE
          /\ unsent_write' = FALSE
          /\ unsent_setup' = FALSE
          /\ pin_map_lock' = Free
          /\ UNCHANGED <<send_b, sync_ret, chunk>>
       \/ /\ pin_map_lock' = Free
          /\ UNCHANGED <<synced_once, unsent_write, unsent_setup>>
          /\ send_b' = <<>>
          /\ sync_ret' = "none"
          /\ chunk' = <<>>
          /\ Goto("server", IF sync_ret = "initial" THEN "crashed" ELSE "loop_chk_lock")
    /\ inbound_write' = FALSE
    /\ UNCHANGED <<sensorVars, pin_map, sockVars, flagVars, outVars, inVars, mainVars,
                   last_write, setup_since, cb_calls, cb_arg, accepts_after_stop>>

\* self.clientSocket.send(send_b), inside the with block.  socket.error leaves
\* the block (the lock is released): the first sync is outside the try, so the
\* thread ends; later ones are inside it, so the thread sleeps and loops.
SyncSend ==
    /\ pc["server"] = "sy_send"
    /\ \/ /\ Goto("server", "sy_clear_lock")
          /\ synced_once' = TRUE
          /\ unsent_write' = FALSE
          /\ unsent_setup' = FALSE
          /\ UNCHANGED <<pin_map_lock, send_b, sync_ret, chunk>>
       \/ /\ pin_map_lock' = Free
          /\ UNCHANGED <<synced_once, unsent_write, unsent_setup>>
          /\ send_b' = <<>>
          /\ sync_ret' = "none"
          /\ chunk' = <<>>
          /\ Goto("server", IF sync_ret = "initial" THEN "crashed" ELSE "loop_chk_lock")
    /\ inbound_write' = FALSE
    /\ UNCHANGED <<sensorVars, pin_map, sockVars, flagVars, outVars, inVars, mainVars,
                   last_write, setup_since, cb_calls, cb_arg, accepts_after_stop>>

\* self.set_should_sync(False), still inside the with block
SyncClearLock ==
    /\ pc["server"] = "sy_clear_lock"
    /\ sync_client_lock = Free
    /\ sync_client_lock' = "server"
    /\ Goto("server", "sy_clear")
    /\ UNCHANGED <<sensorVars, pin_map, pin_map_lock, sockVars, should_sync, run_thread, lock,
                   outVars, inVars, mainVars, srvVars, histVars>>

SyncClear ==
    /\ pc["server"] = "sy_clear"
    /\ should_sync' = FALSE
    /\ sync_client_lock' = Free
    /\ Goto("server", "sy_unlock")
    /\ UNCHANGED <<sensorVars, pin_map, pin_map_lock, sockVars, run_thread, lock, outVars,
                   inVars, mainVars, srvVars, histVars>>

\* The end of the with block and the return: the first sync and the one of
\* the set flag go on to the loop's check, the requested one (0x10) returns
\* from process_message to the check of the flag.
SyncUnlock ==
    /\ pc["server"] = "sy_unlock"
    /\ pin_map_lock' = Free
    /\ send_b' = <<>>
    /\ sync_ret' = "none"
    /\ chunk' = <<>>
    /\ Goto("server", IF sync_ret = "request" THEN "sync_chk_lock" ELSE "loop_chk_lock")
    /\ UNCHANGED <<sensorVars, pin_map, sockVars, flagVars, outVars, inVars, mainVars,
                   histVars>>

\* -------------------------------------------------------------- environment
\* The accepted socket object is referenced by nothing once res is gone and
\* self.clientSocket was never assigned: the interpreter may finalize (close)
\* it at any later time, or never.
Finalize ==
    /\ conn = "open"
    /\ clientSocket = "None"
    /\ res = "unset"
    /\ conn' = "closed"
    /\ UNCHANGED <<sensorVars, pin_map, pin_map_lock, serverSocket, clientSocket,
                   res, flagVars, pc, outVars, inVars, mainVars, srvVars, histVars>>

MainStep ==
    \/ SetupCall \/ SetupLock \/ SetupPut
    \/ AddEventCall \/ AddEventLock \/ AddEventPut
    \/ InputCall \/ MainInputLock \/ MainInputRead
    \/ OutputCall \/ CleanupCall
    \/ ShutdownLock \/ ShutdownSet \/ ShutdownJoin \/ ShutdownClose

OutputStep(t) ==
    \/ OutputLock(t) \/ OutputUpdate(t) \/ OutputCallback(t)
    \/ CallbackInputLock(t) \/ CallbackInputRead(t)
    \/ OutputNotifyLock(t) \/ OutputNotifySet(t)

ServerStep ==
    \/ AcceptLoopLock \/ AcceptLoopCheck \/ AcceptConnection \/ AcceptError
    \/ RunCheckLock \/ RunCheck \/ Unpack
    \/ LoopCheckLock \/ LoopCheck \/ Recv \/ Process
    \/ SyncCheckLock \/ SyncCheck
    \/ SyncLock \/ SyncBuild \/ SyncSend \/ SyncClearLock \/ SyncClear \/ SyncUnlock
    \/ OutputStep("server")

Next ==
    \/ MainStep
    \/ OutputStep("main")
    \/ ServerStep
    \/ Finalize

Spec == Init /\ [][Next]_vars

\* Steps main takes inside a facade call (every step but the calls themselves,
\* which the caller may or may not make).
MainProgress ==
    \/ SetupLock \/ SetupPut \/ AddEventLock \/ AddEventPut
    \/ MainInputLock \/ MainInputRead \/ OutputStep("main")
    \/ ShutdownLock \/ ShutdownSet \/ ShutdownJoin \/ ShutdownClose

\* Both threads are scheduled: a thread that can take a step takes one, and
\* neither is starved of a lock the other keeps releasing (the server sleeps
\* 100 ms in every iteration of its loops).
FairSpec == Spec /\ SF_vars(MainProgress) /\ SF_vars(ServerStep)

\* The server while no client ever connects: accept() only raises.
NoClientServer ==
    \/ AcceptLoopLock \/ AcceptLoopCheck \/ AcceptError \/ RunCheckLock \/ RunCheck

NoClientNext == MainStep \/ OutputStep("main") \/ NoClientServer

NoClientSpec ==
    Init /\ [][NoClientNext]_vars /\ SF_vars(MainProgress) /\ SF_vars(NoClientServer)

\* ======================================================================
\* OmronD6T: frame acquisition (src/sensors/omron_d6t/omron_d6t.py)
\* ======================================================================
ARRAY_SIZE == 16
BUFFER_LENGTH == 35
PEC_PREFIX == 21
MAX_CELLS_ABOVE_ROOM_TEMPERATURE == 10
MAX_RETRIES == 3

\* crcmod's predefined 'crc-8': polynomial x^8 + x^2 + x + 1, initial value 0,
\* not reflected, no final xor.
RECURSIVE BitXor(_, _, _)
BitXor(a, b, n) ==
    IF n = 0 THEN 0
    ELSE (((a % 2) + (b % 2)) % 2) + 2 * BitXor(a \div 2, b \div 2, n - 1)

RECURSIVE Crc8Shift(_, _)
Crc8Shift(c, n) ==
    IF n = 0 THEN c
    ELSE Crc8Shift(IF c >= 128 THEN BitXor((2 * c) % 256, 7, 8) ELSE 2 * c, n - 1)

\* The byte table crcmod builds for the polynomial.
Crc8Table == [b \in 0..255 |-> Crc8Shift(b, 8)]

\* crc8(bytes) continued from byte i, one table step per byte.
RECURSIVE Crc8From(_, _, _)
Crc8From(crc, bytes, i) ==
    IF i > Len(bytes) THEN crc
    ELSE LET next == Crc8Table[BitXor(crc, bytes[i], 8)]
         IN  IF next \in 0..255 THEN Crc8From(next, bytes, i + 1) ELSE crc

Crc8(crc, bytes) == Crc8From(crc, bytes, 1)

\* __calculate_pec(buf): CRC-8 of the prefix byte followed by buf
CalculatePec(buf) == Crc8(0, <<PEC_PREFIX>> \o buf)

\* t / 10 of a 16-bit reading: a decimal with one fractional digit.
Tenths(t) == [whole |-> t \div 10, tenth |-> t % 10]

\* __parse_temperature_data: None (the empty tuple here) unless the buffer has
\* BUFFER_LENGTH bytes; else (room_temperature, temperature), bytes taken low
\* then high, the pixels from the offsets range(2, len - 2, 2).
NoFrame == <<>>

\* Variant: the byte pairs are taken high byte first.
ParseHighByteFirst(buf) ==
    IF Len(buf) # BUFFER_LENGTH THEN NoFrame
    ELSE <<Tenths(buf[1] * 256 + buf[2]),
           [k \in 1..ARRAY_SIZE |-> Tenths(buf[2 * k + 1] * 256 + buf[2 * k + 2])]>>

ParseTemperatureData(buf) ==
    IF Len(buf) # BUFFER_LENGTH THEN NoFrame
    ELSE <<Tenths(buf[2] * 256 + buf[1]),
           [k \in 1..ARRAY_SIZE |-> Tenths(buf[2 * k + 2] * 256 + buf[2 * k + 1])]>>

\* ---- the sensor on the bus (what read_raw_data can hand back)
HotPixel == 300
ColdPixel == 200
RoomReading == 250

ExamplePixel == 100
RampStep == 40

Pixels(hot) == [k \in 1..ARRAY_SIZE |-> IF k <= hot THEN HotPixel ELSE ColdPixel]

\* hot cells first, every other cell exactly at the room reading
PixelsAtRoom(hot) == [k \in 1..ARRAY_SIZE |-> IF k <= hot THEN HotPixel ELSE RoomReading]

\* a different reading in every cell
RampPixels == [k \in 1..ARRAY_SIZE |-> ExamplePixel + RampStep * (k - 1)]

\* 16-bit readings as the sensor puts them on the bus: low byte, then high.
LittleEndian(ts) ==
    [i \in 1..(2 * Len(ts)) |->
        IF i % 2 = 1 THEN ts[(i + 1) \div 2] % 256 ELSE ts[i \div 2] \div 256]

\* A frame as the sensor sends it: room, 16 pixels, then the PEC byte.
SensorFrame(room, pixels) ==
    LET payload == LittleEndian(<<room>> \o pixels)
    IN  Append(payload, CalculatePec(payload))

FlipLast(f) == [f EXCEPT ![Len(f)] = 255 - f[Len(f)]]

\* The outcomes of one read_raw_data(): (bytes_read, buffer), with what the
\* sensor measured when the frame came through intact.
RawOutcomes ==
    LET a == SensorFrame(RoomReading, Pixels(10))
        b == SensorFrame(RoomReading + 1, Pixels(9))
        c == SensorFrame(RoomReading, PixelsAtRoom(9))
        d == SensorFrame(RoomReading, RampPixels)
    IN  << [kind |-> "intact", n |-> Len(a), buf |-> a,
            room |-> RoomReading, pixels |-> Pixels(10)],
           [kind |-> "intact", n |-> Len(b), buf |-> b,
            room |-> RoomReading + 1, pixels |-> Pixels(9)],
           [kind |-> "pec_flipped", n |-> Len(a), buf |-> FlipLast(a),
            room |-> 0, pixels |-> <<>>],
           [kind |-> "data_corrupt", n |-> Len(a), buf |-> [a EXCEPT ![3] = (a[3] + 1) % 256],
            room |-> 0, pixels |-> <<>>],
           [kind |-> "short", n |-> Len(a) - 1, buf |-> SubSeq(a, 1, Len(a) - 1),
            room |-> 0, pixels |-> <<>>],
           [kind |-> "bus_error", n |-> 0, buf |-> <<>>,
            room |-> 0, pixels |-> <<>>],
           [kind |-> "intact", n |-> Len(c), buf |-> c,
            room |-> RoomReading, pixels |-> PixelsAtRoom(9)],
           [kind |-> "intact", n |-> Len(d), buf |-> d,
            room |-> RoomReading, pixels |-> RampPixels] >>

\* Variant: the PEC byte is not compared.
FrameAcceptedByLength(o) == o.n = BUFFER_LENGTH

\* bytes_read == BUFFER_LENGTH and sensor_raw_data[-1] == crc of the rest
FrameAccepted(o) ==
    /\ o.n = BUFFER_LENGTH
    /\ o.buf[Len(o.buf)] = CalculatePec(SubSeq(o.buf, 1, Len(o.buf) - 1))

\* a > b for two temperatures t / 10
Above(a, b) == a.whole * 10 + a.tenth > b.whole * 10 + b.tenth

\* Variant: a cell at room temperature counts too (>=).
CellsAtOrAboveThreshold(room_temperature, temperature_array) ==
    Cardinality({k \in DOMAIN temperature_array :
                    ~Above(room_temperature, temperature_array[k])})

\* __temperature_cells_above_threshold: sum(temperature > room_temperature ...)
CellsAboveThreshold(room_temperature, temperature_array) ==
    Cardinality({k \in DOMAIN temperature_array :
                    Above(temperature_array[k], room_temperature)})

\* occupied_status is read: it calls __read
ReadCall ==
    /\ s_pc = "idle"
    /\ s_pc' = "loop"
    /\ s_i' = 0
    /\ s_log' = <<>>
    /\ s_result' = NoFrame
    /\ s_occupied' = "unset"
    /\ UNCHANGED simVars

\* One iteration of for i in range(_MAX_RETRIES): a raw read, then either the
\* return of the parsed frame or the 50 ms sleep and continue.
ReadAttempt ==
    /\ s_pc = "loop"
    /\ s_i < MAX_RETRIES
    /\ \E k \in 1..Len(RawOutcomes) :
          /\ s_log' = Append(s_log, k)
          /\ IF FrameAccepted(RawOutcomes[k])
             THEN /\ s_result' = ParseTemperatureData(RawOutcomes[k].buf)
                  /\ s_pc' = "returned"
                  /\ s_i' = s_i
             ELSE /\ s_i' = s_i + 1
                  /\ UNCHANGED <<s_pc, s_result>>
    /\ UNCHANGED <<s_occupied, simVars>>

\* The range is exhausted: return None
ReadExhausted ==
    /\ s_pc = "loop"
    /\ s_i = MAX_RETRIES
    /\ s_result' = NoFrame
    /\ s_pc' = "returned"
    /\ UNCHANGED <<s_i, s_log, s_occupied, simVars>>

\* occupied_status after __read has returned: False for None, else the
\* comparison of the count with the threshold.
OccupiedStatus ==
    /\ s_pc = "returned"
    /\ s_occupied' =
          IF s_result = NoFrame THEN FALSE
          ELSE CellsAboveThreshold(s_result[1], s_result[2])
                  >= MAX_CELLS_ABOVE_ROOM_TEMPERATURE
    /\ s_pc' = "done"
    /\ UNCHANGED <<s_i, s_result, s_log, simVars>>

SensorNext == ReadCall \/ ReadAttempt \/ ReadExhausted \/ OccupiedStatus

SensorSpec == Init /\ [][SensorNext]_vars

\* ======================================================================
\* Properties
\* ======================================================================
ReadPcs == {"in_read", "cb_in_read"}

\* The step in which thread t's GPIO.input reads the table and returns.
ReadReturns(t) == pc[t] \in ReadPcs /\ pc'[t] # pc[t]

\* C1 (as stated): once a pin has been set up and written with v, every read
\* of it returns v until the next write to it, on either thread.
ReadReturnsLastWrite ==
    [][\A t \in Threads :
          (ReadReturns(t) /\ last_write[in_pin[t]] # NoValue)
             => in_ret'[t] = last_write[in_pin[t]]]_vars

\* C1 (amended): once a pin has been set up and written with v, every read of
\* it returns v until the next write to it or the next setup of it.
ReadReturnsLastWriteUntilSetup ==
    [][\A t \in Threads :
          (ReadReturns(t) /\ last_write[in_pin[t]] # NoValue
                          /\ ~setup_since[in_pin[t]])
             => in_ret'[t] = last_write[in_pin[t]]]_vars

\* A read on main has returned the non-zero value last written to a pin.
ReadAfterWriteSeen ==
    /\ pc["main"] = "idle"
    /\ in_ret["main"] = MaxValue
    /\ \E p \in Pins : last_write[p] = MaxValue /\ ~setup_since[p]

\* C2: a write to a registered pin with a callback invokes it exactly once,
\* with the pin id, on the writing thread, after the pin-table lock has been
\* released, so the callback's own read never waits for its own thread.
CallbackOnceOutsideLock ==
    /\ [](\A t \in Threads :
            /\ pc[t] = "out_callback"
                  => pin_map_lock # t /\ o_cb[t] # NoCallback /\ cb_calls[t] = 0
            /\ pc[t] \in {"cb_in_lock", "cb_in_read"}
                  => cb_calls[t] = 1 /\ cb_arg[t] = o_pin[t]
            /\ pc[t] = "cb_in_lock" => pin_map_lock # t
            /\ pc[t] \in {"out_notify_lock", "out_notify_set"}
                  => cb_calls[t] = IF o_cb[t] # NoCallback THEN 1 ELSE 0)
    /\ [][\A t \in Threads :
            (pc[t] = "out_update" /\ pc'[t] # pc[t])
               => (pc'[t] = "out_callback"
                      <=> (HasPin(pin_map, o_pin[t])
                           /\ Get(pin_map, o_pin[t]).callback # NoCallback))]_vars

\* The server thread has run a callback once for an inbound write while main
\* is inside a facade call.
CallbackRanOnServer ==
    /\ pc["server"] = "out_notify_lock"
    /\ cb_calls["server"] = 1
    /\ pc["main"] # "idle"

\* C3: the bytes of a full sync are exactly one 0x35/pin/value triple per
\* registered pin, each with the table's value at that moment, whatever main
\* does meanwhile.
SyncIsExactSnapshot ==
    pc["server"] \in {"sy_send", "sy_clear_lock", "sy_clear", "sy_unlock"} =>
       /\ Len(send_b) = 3 * Len(pin_map)
       /\ \A i \in 1..Len(pin_map) :
             /\ send_b[3 * i - 2] = CMD_SET_PIN
             /\ send_b[3 * i - 1] = pin_map[i].pin
             /\ send_b[3 * i] = pin_map[i].state
       /\ \A i, j \in 1..Len(pin_map) : pin_map[i].pin = pin_map[j].pin => i = j

\* A sync of a full table with a written pin is being sent while main waits to
\* enter the table.
SyncUnderContention ==
    /\ pc["server"] = "sy_send"
    /\ Len(pin_map) = MaxPin
    /\ \E i \in 1..Len(pin_map) : pin_map[i].state = MaxValue
    /\ pc["main"] \in {"setup_lock", "out_lock"}

MalformedChunk(c) ==
    \/ Len(c) = 0
    \/ Len(c) > 3
    \/ c[1] = CMD_SET_PIN /\ Len(c) < 3
    \/ c[1] \notin {CMD_SET_PIN, CMD_SYNC}

\* C4: a malformed inbound message is dropped and never ends the session: the
\* receive loop goes on after it.
MalformedNeverEndsSession ==
    [][(pc["server"] = "process" /\ MalformedChunk(chunk))
          => pc'["server"] \notin {"crashed", "exited"}]_vars

InvalidChunk(c) ==
    \/ Len(c) < 1
    \/ Len(c) > 3
    \/ c[1] = CMD_SET_PIN /\ Len(c) < 3

\* C5: processing an invalid message (empty, longer than 3 bytes, or 0x35
\* without its value byte) leaves the pin table as it is: the step that
\* processes it changes nothing and starts no write, and the server never
\* changes the table while the message at hand is invalid.
InvalidMessageLeavesTable ==
    [][/\ (pc["server"] = "process" /\ pc'["server"] # "process"
                                     /\ InvalidChunk(chunk))
             => pin_map' = pin_map /\ pc'["server"] # "out_lock"
       /\ (pin_map' # pin_map /\ pin_map_lock = "server") => ~InvalidChunk(chunk)]_vars

\* A 0x35 message without its value byte has been processed with a written
\* pin in the table.
TruncatedSetProcessed ==
    /\ pc["server"] = "crashed"
    /\ Len(chunk) = 2
    /\ chunk[1] = CMD_SET_PIN
    /\ \E i \in 1..Len(pin_map) : pin_map[i].state = MaxValue

\* C6: after shutdown has returned, the server thread has ended and every
\* socket the server opened, the listening one and an accepted client's, is
\* closed.
ShutdownClosesEverySocket ==
    pc["main"] = "finished" =>
       /\ ThreadEnded
       /\ serverSocket = "closed"
       /\ conn # "open"

WriteEventuallySynced ==
    (should_sync /\ clientSocket = "conn" /\ run_thread /\ ~ThreadEnded)
       ~> (pc["server"] = "sy_send" \/ ~run_thread \/ ThreadEnded)

Intact(k) == RawOutcomes[k].kind = "intact"

\* C10: one acquisition makes at most MAX_RETRIES raw reads, never reads on
\* after an intact frame (expected length, matching checksum), returns that
\* frame's room and pixel temperatures, and returns None exactly when none of
\* its MAX_RETRIES reads was intact; short reads and checksum mismatches are
\* retried alike.
AcquisitionRetriesUntilIntact ==
    /\ Len(s_log) <= MAX_RETRIES
    /\ \A i \in 1..(Len(s_log) - 1) : ~Intact(s_log[i])
    /\ s_pc = "loop" => (s_i = Len(s_log) /\ \A i \in 1..Len(s_log) : ~Intact(s_log[i]))
    /\ s_pc \in {"returned", "done"} =>
          /\ s_result = NoFrame <=> \A i \in 1..Len(s_log) : ~Intact(s_log[i])
          /\ s_result = NoFrame => Len(s_log) = MAX_RETRIES
          /\ s_result # NoFrame =>
                LET o == RawOutcomes[s_log[Len(s_log)]]
                IN  /\ s_result[1] = Tenths(o.room)
                    /\ s_result[2] = [k \in 1..ARRAY_SIZE |-> Tenths(o.pixels[k])]

\* A short read and a checksum mismatch were both retried and the last
\* allowed read returned a frame.
RetriedThenRead ==
    /\ s_pc = "returned"
    /\ s_result # NoFrame
    /\ Len(s_log) = MAX_RETRIES
    /\ RawOutcomes[s_log[1]].kind = "short"
    /\ RawOutcomes[s_log[2]].kind = "pec_flipped"

\* C11: decoding a 35-byte frame gives room = (byte[1]*256 + byte[0]) / 10 and
\* 16 pixels, pixel k = (byte[2k+3]*256 + byte[2k+2]) / 10 in the order of the
\* offsets 2,4,...,32; the trailing check byte changes no temperature; bytes
\* FA 00 decode to 25.0 and 64 00 to 10.0.
DecodeFollowsLayout ==
    (s_pc \in {"returned", "done"} /\ s_result # NoFrame) =>
       LET buf == RawOutcomes[s_log[Len(s_log)]].buf
       IN  /\ Len(buf) = 35
           /\ s_result[1] = Tenths(buf[2] * 256 + buf[1])
           /\ DOMAIN s_result[2] = 1..16
           /\ \A k \in 0..15 :
                 s_result[2][k + 1] = Tenths(buf[2 * k + 4] * 256 + buf[2 * k + 3])
           /\ ParseTemperatureData(FlipLast(buf)) = s_result
           /\ (buf[1] = 250 /\ buf[2] = 0) => s_result[1] = [whole |-> 25, tenth |-> 0]
           /\ \A k \in 0..15 :
                 (buf[2 * k + 3] = 100 /\ buf[2 * k + 4] = 0)
                    => s_result[2][k + 1] = [whole |-> 10, tenth |-> 0]

\* The frame with a different reading in every cell has been decoded: room
\* FA 00 as 25.0, first pixel 64 00 as 10.0, a later pixel with a non-zero
\* high byte.
RampFrameDecoded ==
    /\ s_pc = "returned"
    /\ s_result # NoFrame
    /\ RawOutcomes[s_log[Len(s_log)]].pixels = RampPixels
    /\ s_result[1] = [whole |-> 25, tenth |-> 0]
    /\ s_result[2][1] = [whole |-> 10, tenth |-> 0]
    /\ RawOutcomes[s_log[Len(s_log)]].buf[12] > 0
    /\ s_result[2][5] # s_result[2][6]

\* C12: occupied_status is true exactly when a frame was acquired and at
\* least 10 of its 16 pixels are strictly above its room temperature, and is
\* false, without raising, when no frame was acquired.
OccupiedIffTenCellsAbove ==
    s_pc = "done" =>
       /\ s_occupied \in BOOLEAN
       /\ s_result = NoFrame => s_occupied = FALSE
       /\ s_result # NoFrame =>
             LET o == RawOutcomes[s_log[Len(s_log)]]
             IN  s_occupied =
                    (Cardinality({k \in 1..16 : o.pixels[k] > o.room}) >= 10)

\* Occupancy has been evaluated as false on a frame with 9 cells above and 7
\* cells exactly at room temperature.
NineAboveSevenEqualUnoccupied ==
    /\ s_pc = "done"
    /\ s_result # NoFrame
    /\ RawOutcomes[s_log[Len(s_log)]].pixels = PixelsAtRoom(9)
    /\ s_occupied = FALSE

\* C13: a write to a pin that was never set up raises nothing, adds no entry,
\* changes no pin's value or callback and invokes no callback; a read of such
\* a pin returns None and changes nothing.
UnregisteredAccessIsNoOp ==
    [][\A t \in Threads :
          /\ (pc[t] = "out_update" /\ pc'[t] # pc[t] /\ ~HasPin(pin_map, o_pin[t]))
                => /\ pin_map' = pin_map
                   /\ pc'[t] = "out_notify_lock"
                   /\ cb_calls'[t] = 0
          /\ (pc[t] \in {"out_lock", "out_update", "out_notify_lock", "out_notify_set"}
                 /\ pc'[t] # pc[t] /\ ~HasPin(pin_map, o_pin[t]))
                => /\ pin_map' = pin_map
                   /\ pc'[t] # "crashed"
                   /\ raised' = raised
                   /\ t = "main" => raised = "none"
          /\ (ReadReturns(t) /\ ~HasPin(pin_map, in_pin[t]))
                => /\ in_ret'[t] = NoValue
                   /\ pin_map' = pin_map
                   /\ pc'[t] # "crashed"
                   /\ raised' = raised]_vars

\* Main has written the pin that is never set up, past the table update, while
\* a set-up pin holds a written value and a callback.
UnregisteredWriteDone ==
    /\ pc["main"] = "out_notify_lock"
    /\ o_pin["main"] \notin Pins
    /\ cb_calls["main"] = 0
    /\ \E i \in 1..Len(pin_map) :
          pin_map[i].state = MaxValue /\ pin_map[i].callback # NoCallback

\* C14: add_event_detect never fails: on a pin that was never set up it
\* returns without raising and leaves the table as it is, and on a set-up pin
\* it replaces that pin's callback only and keeps its value.
AddEventDetectNeverFails ==
    [][(pc["main"] = "aed_put" /\ pc'["main"] # "aed_put")
          => /\ raised' = "none"
             /\ IF HasPin(pin_map, a_pin)
                THEN /\ Len(pin_map') = Len(pin_map)
                     /\ \A i \in 1..Len(pin_map) :
                           /\ pin_map'[i].pin = pin_map[i].pin
                           /\ pin_map'[i].state = pin_map[i].state
                           /\ pin_map'[i].callback =
                                 IF pin_map[i].pin = a_pin THEN a_cb
                                 ELSE pin_map[i].callback
                ELSE pin_map' = pin_map]_vars

\* C15: a valid inbound 0x35,p,v for a set-up pin p acts as a facade write on
\* the server thread: the table gets v for p and keeps p's callback, the
\* callback is invoked once outside the pin-table lock, and the flag the write
\* raises leads to a full sync before the loop iteration ends.
InboundSetActsLikeWrite ==
    /\ []( /\ inbound_write =>
                pc["server"] \in {"out_lock", "out_update", "out_callback", "cb_in_lock",
                                  "cb_in_read", "out_notify_lock", "out_notify_set",
                                  "sync_chk_lock", "sync_chk", "sy_lock", "sy_build",
                                  "sy_send"}
           /\ (inbound_write /\ pc["server"] \in {"sync_chk_lock", "sync_chk"})
                => should_sync
           /\ (inbound_write /\ pc["server"] \in {"sy_lock", "sy_build", "sy_send"})
                => sync_ret = "flag"
           /\ pc["server"] = "out_callback"
                => pin_map_lock # "server" /\ cb_calls["server"] = 0
           /\ pc["server"] = "out_notify_set"
                => cb_calls["server"] = IF o_cb["server"] # NoCallback THEN 1 ELSE 0)
    /\ [][(pc["server"] = "out_update" /\ pc'["server"] # "out_update"
              /\ HasPin(pin_map, o_pin["server"]))
            => /\ o_pin["server"] = chunk[2] /\ o_val["server"] = chunk[3]
               /\ HasPin(pin_map', chunk[2])
               /\ Get(pin_map', chunk[2]).state = chunk[3]
               /\ Get(pin_map', chunk[2]).callback = Get(pin_map, chunk[2]).callback
               /\ Len(pin_map') = Len(pin_map)
               /\ pc'["server"] = "out_callback"
                     <=> Get(pin_map, chunk[2]).callback # NoCallback]_vars

\* The sync that the flag of an inbound write asked for is being sent in the
\* iteration that took the message, the written pin holding the value and
\* its callback.
SyncAfterInboundWrite ==
    /\ pc["server"] = "sy_send"
    /\ inbound_write
    /\ sync_ret = "flag"
    /\ \E i \in 1..Len(pin_map) :
          /\ pin_map[i].state = MaxValue
          /\ pin_map[i].callback # NoCallback
          /\ send_b[3 * i] = MaxValue

\* The server's state: 1 awaiting a client, 2 connected, 3 stopped.
ServerPhase ==
    IF pc["server"] \in {"exited", "crashed"} THEN 3
    ELSE IF clientSocket = "conn" THEN 2 ELSE 1

\* C16: accept succeeds at most once, the client socket is assigned at most
\* once, the server's state only moves forward (awaiting a client, connected,
\* stopped), and the run flag, once false, never becomes true again.
SingleClientForwardOnly ==
    /\ [][(pc["server"] = "acc_accept" /\ conn' = "open")
            => (conn = "none" /\ res # "conn" /\ clientSocket = "None")]_vars
    /\ [][clientSocket' # clientSocket
            => (clientSocket = "None" /\ clientSocket' = "conn" /\ res = "conn")]_vars
    /\ [][ServerPhase' >= ServerPhase]_vars
    /\ [][~run_thread => ~run_thread']_vars
    /\ [](pc["server"] \in {"acc_chk_lock", "acc_chk", "acc_accept"} => conn = "none")

\* The server has gone through all three states: it accepted a client, was
\* connected, and has stopped on shutdown.
ConnectedThenStopped ==
    /\ pc["server"] = "exited"
    /\ clientSocket = "conn"
    /\ ~run_thread
    /\ pc["main"] = "finished"

\* C17: once the client socket is assigned the server syncs unconditionally:
\* the first bytes sent are the full table, before anything is received or
\* processed, whatever the value of the flag.
FirstSyncUnconditional ==
    /\ [](/\ sync_ret = "initial" => (chunk = <<>> /\ ~inbound_write)
          /\ (sync_ret = "initial" /\ pc["server"] \in {"sy_lock", "sy_build", "sy_send"})
                => ~synced_once
          /\ pc["server"] \in {"loop_chk_lock", "loop_chk", "recv", "process",
                                "sync_chk_lock", "sync_chk"} => synced_once
          /\ (pc["server"] = "sy_send" /\ ~synced_once)
                => (sync_ret = "initial" /\ send_b = Serialize(pin_map)))
    /\ [][clientSocket' # clientSocket
            => (pc'["server"] = "sy_lock" /\ sync_ret' = "initial")]_vars
    /\ [][synced_once' # synced_once
            => (sync_ret = "initial" /\ pc["server"] = "sy_send")]_vars

\* The first sync is being sent with the flag false and every pin in the table.
FirstSyncWithFlagDown ==
    /\ pc["server"] = "sy_send"
    /\ sync_ret = "initial"
    /\ ~should_sync
    /\ Len(pin_map) = MaxPin
    /\ Len(send_b) = 3 * MaxPin

\* C18: a failed receive or a failed send to the client, the send of the
\* first sync included, does not end the session: the server thread goes on
\* with its loop.
TransportErrorsNotFatal ==
    [][(pc["server"] \in {"recv", "sy_send"} /\ pc'["server"] # pc["server"])
          => pc'["server"] \in {"process", "sy_clear_lock", "loop_chk_lock"}]_vars

\* Thread t is between the table update of a write and its set_should_sync call.
WriteInFlight(t) ==
    pc[t] \in {"out_callback", "cb_in_lock", "cb_in_read", "out_notify_lock",
               "out_notify_set"}

\* A client is connected and has got a snapshot, no write is in flight and the
\* flag is false.
Quiescent ==
    /\ clientSocket = "conn"
    /\ synced_once
    /\ ~should_sync
    /\ \A t \in Threads : ~WriteInFlight(t)

\* The step in which a send of sync_with_client fails.
SendFails == pc["server"] = "sy_send" /\ pc'["server"] \notin {"sy_send", "sy_clear_lock"}

\* C19 (as stated): with a client connected, no write in flight and the flag
\* false, the snapshot last sent successfully equals the table's pin-to-value
\* mapping (no write and no setup has changed the table since it was taken);
\* and a sync whose send fails leaves the flag set.
SnapshotEqualsTable ==
    /\ [](Quiescent => (~unsent_write /\ ~unsent_setup))
    /\ [][(SendFails /\ should_sync) => should_sync']_vars

\* C19 (amended): with a client connected, no write in flight and the flag
\* false, no write has changed the table since the snapshot last sent
\* successfully was taken, so that snapshot holds every written value; and a
\* sync whose send fails leaves a set flag set.
NoWriteLost ==
    /\ [](Quiescent => ~unsent_write)
    /\ [][(SendFails /\ should_sync) => should_sync']_vars

\* After a write changed a pin that the client had received as 0, the client
\* holds the new value, the flag is false and both threads are out of writes.
WrittenValueAtClient ==
    /\ Quiescent
    /\ pc["main"] = "idle"
    /\ pc["server"] = "recv"
    /\ \E p \in Pins :
          /\ HasPin(pin_map, p)
          /\ Get(pin_map, p).state = MaxValue
          /\ last_write[p] = MaxValue
          /\ ~setup_since[p]
    /\ ~unsent_write

\* The lock thread t is about to acquire at its position ("none" elsewhere).
RequestedLock(t) ==
    IF pc[t] \in {"setup_lock", "aed_lock", "in_lock", "cb_in_lock", "out_lock", "sy_lock"}
    THEN "pin_map_lock"
    ELSE IF pc[t] \in {"out_notify_lock", "sync_chk_lock", "sy_clear_lock"}
    THEN "sync_client_lock"
    ELSE IF pc[t] \in {"acc_chk_lock", "run_chk_lock", "loop_chk_lock", "sd_lock"}
    THEN "lock"
    ELSE "none"

HolderOf(l) ==
    IF l = "pin_map_lock" THEN pin_map_lock
    ELSE IF l = "sync_client_lock" THEN sync_client_lock
    ELSE IF l = "lock" THEN lock ELSE Free

\* C20: the locks are taken in one order: a thread that requests the
\* needs-sync lock may hold the pin-table lock (only inside sync_with_client),
\* a thread that requests the pin-table lock or the run-flag lock holds no
\* lock, and the two threads are never each waiting for a lock the other holds.
LockOrderAcyclic ==
    /\ \A t \in Threads :
          /\ RequestedLock(t) = "pin_map_lock"
                => (pin_map_lock # t /\ sync_client_lock # t /\ lock # t)
          /\ RequestedLock(t) = "sync_client_lock"
                => /\ sync_client_lock # t /\ lock # t
                   /\ pin_map_lock = t => pc[t] = "sy_clear_lock"
          /\ RequestedLock(t) = "lock"
                => (pin_map_lock # t /\ sync_client_lock # t /\ lock # t)
    /\ ~(/\ RequestedLock("main") # "none"
         /\ HolderOf(RequestedLock("main")) = "server"
         /\ RequestedLock("server") # "none"
         /\ HolderOf(RequestedLock("server")) = "main")

\* The server, holding the pin-table lock inside sync_with_client, waits for
\* the needs-sync lock that main holds inside set_should_sync.
NestedRequestUnderContention ==
    /\ pc["server"] = "sy_clear_lock"
    /\ pin_map_lock = "server"
    /\ sync_client_lock = "main"
    /\ pc["main"] = "out_notify_set"

====
